---- MODULE Spec2Model ----
(***************************************************************************)
(* Model of LAEH (Lightweight Asynchronous Error Handling), lib/laeh.js.   *)
(*                                                                         *)
(* JavaScript values are records [k, n]: k is the kind of the value and n  *)
(* its identity within the kind.  Error objects live in `heap`; the value  *)
(* Err(i) is a reference to heap[i].  The wrappers returned by _x live in  *)
(* `wrappers`; the closure variables of a wrapper (cb, chk, prev) are the  *)
(* fields of its record, and cb is assigned by the wrapper itself.         *)
(***************************************************************************)
EXTENDS Integers, Sequences, FiniteSets, TLC

VARIABLES heap, wrappers, known, last, ncalls, guard, handlers, http, trace, ea

vars == <<heap, wrappers, known, last, ncalls, guard, handlers, http, trace, ea>>

\* ------------------------------------------------------------------ bounds
MaxErrs == 2
MaxWrappers == 1
MaxCalls == 2
MaxChainErrs == 3
MaxChainWrappers == 2
MaxChainCalls == 4
MaxGuardErrs == 2
MaxHandlers == 2
MaxFrames == 2
MaxMetaErrs == 3
MaxMetaWrappers == 1
MaxMetaCalls == 3
MaxReplyErrs == 3

\* ------------------------------------------------------------------ values
Nil == [k |-> "nil", n |-> 0]
Str(i) == [k |-> "str", n |-> i]
Obj(i) == [k |-> "obj", n |-> i]
Num(i) == [k |-> "num", n |-> i]
Fn(i) == [k |-> "fn", n |-> i]
Err(i) == [k |-> "err", n |-> i]

\* Str(0) is the empty string '' and Num(0) the number 0
Truthy(v) ==
    /\ v.k # "nil"
    /\ ~(v.k = "str" /\ v.n = 0)
    /\ ~(v.k = "num" /\ v.n = 0)

IsError(v) == v.k = "err"

IsCallable(v) == v.k = "fn"

\* String(v), as new Error(v) computes the message: a string is kept, every
\* other kind is stringified (all objects to the same '[object Object]')
StringOf(v) ==
    CASE v.k = "str" -> v
      [] v.k = "nil" -> Str(0)
      [] v.k = "num" -> [k |-> "numtext", n |-> v.n]
      [] v.k = "obj" -> [k |-> "objtext", n |-> 0]
      [] v.k = "fn" -> [k |-> "fntext", n |-> v.n]
      [] OTHER -> [k |-> "errtext", n |-> v.n]

\* new Error(m): a fresh object, no meta, no prev; `by` is the place that
\* constructed it
NewError(m, by) == [message |-> StringOf(m), meta |-> Nil, prev |-> 0, by |-> by]

NoThrow == [thrown |-> FALSE, v |-> Nil]
Throw(v) == [thrown |-> TRUE, v |-> v]

\* ------------------------------------------------------------------ _e
\* _e(e, meta) on heap h: the outcome (what is thrown, if anything) and the
\* heap it leaves
MutE_noMeta(e, meta, h) ==
    IF Truthy(e)
    THEN LET fresh == ~IsError(e)
             h1 == IF fresh THEN Append(h, NewError(e, "_e")) ELSE h
             id == IF fresh THEN Len(h1) ELSE e.n
         IN  [out |-> Throw(Err(id)), heap |-> h1]
    ELSE [out |-> NoThrow, heap |-> h]

MutE_alwaysWraps(e, meta, h) ==
    IF Truthy(e)
    THEN LET h1 == Append(h, NewError(e, "_e"))
             id == Len(h1)
             h2 == IF Truthy(meta) THEN [h1 EXCEPT ![id].meta = meta] ELSE h1
         IN  [out |-> Throw(Err(id)), heap |-> h2]
    ELSE [out |-> NoThrow, heap |-> h]

MutE_assignsEmptyMeta(e, meta, h) ==
    IF Truthy(e)
    THEN LET fresh == ~IsError(e)
             h1 == IF fresh THEN Append(h, NewError(e, "_e")) ELSE h
             id == IF fresh THEN Len(h1) ELSE e.n
         IN  [out |-> Throw(Err(id)), heap |-> [h1 EXCEPT ![id].meta = meta]]
    ELSE [out |-> NoThrow, heap |-> h]

E(e, meta, h) ==
    IF Truthy(e)
    THEN LET fresh == ~IsError(e)
             h1 == IF fresh THEN Append(h, NewError(e, "_e")) ELSE h
             id == IF fresh THEN Len(h1) ELSE e.n
             h2 == IF Truthy(meta) THEN [h1 EXCEPT ![id].meta = meta] ELSE h1
         IN  [out |-> Throw(Err(id)), heap |-> h2]
    ELSE [out |-> NoThrow, heap |-> h]

\* ------------------------------------------------------------------ _x
\* _x(func, cb, chk), called while wrapper `parent` runs its continuation
\* (0: called from the top level).  The snapshot prev is constructed here.
\* cb0 keeps the cb argument of the call, for reference: the closure variable
\* cb is assigned by the returned function.
MutX_linksParent(cb, chk, parent, h, ws) ==
    LET snap == [NewError(Nil, "_x") EXCEPT
                    !.prev = IF parent # 0 THEN ws[parent].prev ELSE 0]
        h1 == Append(h, snap)
    IN  [heap |-> h1,
         wrappers |-> Append(ws, [cb |-> cb, cb0 |-> cb, chk |-> chk,
                                  prev |-> Len(h1), parent |-> parent])]

X(cb, chk, parent, h, ws) ==
    LET h1 == Append(h, NewError(Nil, "_x"))
    IN  [heap |-> h1,
         wrappers |-> Append(ws, [cb |-> cb, cb0 |-> cb, chk |-> chk,
                                  prev |-> Len(h1), parent |-> parent])]

\* if(!cb) cb = a.length > 0 ? a[a.length - 1] : null
ResolveCb(cb, a) ==
    IF ~Truthy(cb)
    THEN IF Len(a) > 0 THEN a[Len(a)] ELSE Nil
    ELSE cb

\* a[0]; undefined when there are no arguments
FirstArg(a) == IF Len(a) > 0 THEN a[1] ELSE Nil

\* func.apply(null, a): the continuation is the caller's code.  beh is what
\* it does in this call: return, throw the value beh.v, throw a new Error,
\* create a wrapper of its own (_x(f, beh.v, beh.chk)) and return, or call
\* _e(beh.v, beh.meta).
Func(w, beh, h, ws) ==
    CASE beh.t = "throw" ->
            [out |-> Throw(beh.v), heap |-> h, wrappers |-> ws]
      [] beh.t = "throwNew" ->
            [out |-> Throw(Err(Len(h) + 1)),
             heap |-> Append(h, NewError(beh.v, "user")), wrappers |-> ws]
      [] beh.t = "nest" ->
            [out |-> NoThrow] @@ X(beh.v, beh.chk, w, h, ws)
      [] beh.t = "guard" ->
            [wrappers |-> ws] @@ E(beh.v, beh.meta, h)
      [] OTHER ->
            [out |-> NoThrow, heap |-> h, wrappers |-> ws]

\* the try block: if(chk) _e(a[0]); func.apply(null, a);
MutTryBody_runsAfterCheck(w, chk, a, beh, h, ws) ==
    LET c == IF chk THEN E(FirstArg(a), Nil, h) ELSE [out |-> NoThrow, heap |-> h]
        f == Func(w, beh, c.heap, ws)
    IN  IF c.out.thrown
        THEN [out |-> c.out, heap |-> f.heap, wrappers |-> f.wrappers, ran |-> TRUE]
        ELSE f @@ [ran |-> TRUE]

TryBody(w, chk, a, beh, h, ws) ==
    LET c == IF chk THEN E(FirstArg(a), Nil, h) ELSE [out |-> NoThrow, heap |-> h]
    IN  IF c.out.thrown
        THEN [out |-> c.out, heap |-> c.heap, wrappers |-> ws, ran |-> FALSE]
        ELSE Func(w, beh, c.heap, ws) @@ [ran |-> TRUE]

NoEscape == [kind |-> "none", v |-> Nil]
MissingCallback == [kind |-> "missing callback", v |-> Nil]
NotAFunction == [kind |-> "TypeError", v |-> Nil]
FromCallback(v) == [kind |-> "callback", v |-> v]

Uncaught(v) == [kind |-> "uncaught", v |-> v]

\* the catch block, entered with the thrown value v; cbBeh is what the
\* completion callback does when it is called (it is the caller's code):
\* return, or throw the failure it was given
MutCatchBlock_noPrev(v, prev, cb, cbBeh, h) ==
    LET fresh == ~IsError(v)
        h1 == IF fresh THEN Append(h, NewError(v, "catch")) ELSE h
        id == IF fresh THEN Len(h1) ELSE v.n
    IN  IF ~Truthy(cb)
        THEN [heap |-> h1, e |-> id, calls |-> <<>>, escaped |-> MissingCallback]
        ELSE IF ~IsCallable(cb)
        THEN [heap |-> h1, e |-> id, calls |-> <<>>, escaped |-> NotAFunction]
        ELSE [heap |-> h1, e |-> id, calls |-> <<[cb |-> cb, arg |-> Err(id)]>>,
              escaped |-> IF cbBeh = "throw" THEN FromCallback(Err(id)) ELSE NoEscape]

MutCatchBlock_rethrows(v, prev, cb, cbBeh, h) ==
    LET fresh == ~IsError(v)
        h1 == IF fresh THEN Append(h, NewError(v, "catch")) ELSE h
        id == IF fresh THEN Len(h1) ELSE v.n
        h2 == [h1 EXCEPT ![id].prev = prev]
    IN  [heap |-> h2, e |-> id, calls |-> <<>>, escaped |-> Uncaught(Err(id))]

MutCatchBlock_callsTwice(v, prev, cb, cbBeh, h) ==
    LET fresh == ~IsError(v)
        h1 == IF fresh THEN Append(h, NewError(v, "catch")) ELSE h
        id == IF fresh THEN Len(h1) ELSE v.n
        h2 == [h1 EXCEPT ![id].prev = prev]
    IN  IF ~Truthy(cb)
        THEN [heap |-> h2, e |-> id, calls |-> <<>>, escaped |-> MissingCallback]
        ELSE IF ~IsCallable(cb)
        THEN [heap |-> h2, e |-> id, calls |-> <<>>, escaped |-> NotAFunction]
        ELSE [heap |-> h2, e |-> id,
              calls |-> <<[cb |-> cb, arg |-> Err(id)], [cb |-> cb, arg |-> Err(id)]>>,
              escaped |-> IF cbBeh = "throw" THEN FromCallback(Err(id)) ELSE NoEscape]

MutCatchBlock_deliversRaised(v, prev, cb, cbBeh, h) ==
    LET fresh == ~IsError(v)
        h1 == IF fresh THEN Append(h, NewError(v, "catch")) ELSE h
        id == IF fresh THEN Len(h1) ELSE v.n
        h2 == [h1 EXCEPT ![id].prev = prev]
    IN  IF ~Truthy(cb)
        THEN [heap |-> h2, e |-> id, calls |-> <<>>, escaped |-> MissingCallback]
        ELSE IF ~IsCallable(cb)
        THEN [heap |-> h2, e |-> id, calls |-> <<>>, escaped |-> NotAFunction]
        ELSE [heap |-> h2, e |-> id, calls |-> <<[cb |-> cb, arg |-> v]>>,
              escaped |-> IF cbBeh = "throw" THEN FromCallback(Err(id)) ELSE NoEscape]

CatchBlock(v, prev, cb, cbBeh, h) ==
    LET fresh == ~IsError(v)
        h1 == IF fresh THEN Append(h, NewError(v, "catch")) ELSE h
        id == IF fresh THEN Len(h1) ELSE v.n
        h2 == [h1 EXCEPT ![id].prev = prev]
    IN  IF ~Truthy(cb)
        THEN [heap |-> h2, e |-> id, calls |-> <<>>, escaped |-> MissingCallback]
        ELSE IF ~IsCallable(cb)
        THEN [heap |-> h2, e |-> id, calls |-> <<>>, escaped |-> NotAFunction]
        ELSE [heap |-> h2, e |-> id, calls |-> <<[cb |-> cb, arg |-> Err(id)]>>,
              escaped |-> IF cbBeh = "throw" THEN FromCallback(Err(id)) ELSE NoEscape]

\* the function _x returns, called with arguments a: the new heap and
\* wrappers, and the record of what this call did
Returned(w, a, beh, cbBeh, h, ws) ==
    LET cb == ResolveCb(ws[w].cb, a)
        ws1 == [ws EXCEPT ![w].cb = cb]
        t == TryBody(w, ws[w].chk, a, beh, h, ws1)
        c == IF t.out.thrown
             THEN CatchBlock(t.out.v, ws[w].prev, cb, cbBeh, t.heap)
             ELSE [heap |-> t.heap, e |-> 0, calls |-> <<>>, escaped |-> NoEscape]
    IN  [heap |-> c.heap,
         wrappers |-> t.wrappers,
         call |-> [w |-> w, a |-> a, cb |-> cb, ran |-> t.ran,
                   completed |-> t.ran /\ ~t.out.thrown,
                   out |-> t.out, e |-> c.e, calls |-> c.calls,
                   escaped |-> c.escaped, heapLen |-> Len(h)]]

\* ------------------------------------------------------------------ state
\* the errors on the prev chain of error i (i included), following at most
\* fuel links
RECURSIVE ChainOf(_, _, _)
ChainOf(h, i, fuel) ==
    IF i = 0 \/ fuel = 0 THEN {}
    ELSE {i} \cup ChainOf(h, h[i].prev, fuel - 1)

\* the errors the caller's code holds a reference to after a call: the ones
\* it constructed and the ones delivered to it, with what they link to
Learned(r) ==
    LET made == {i \in 1..Len(r.heap) : r.heap[i].by = "user"}
        got == IF r.call.calls # <<>> THEN ChainOf(r.heap, r.call.e, Len(r.heap)) ELSE {}
    IN  made \cup got

NoCall == [w |-> 0, a |-> <<>>, cb |-> Nil, ran |-> FALSE, completed |-> FALSE,
           out |-> NoThrow, e |-> 0, calls |-> <<>>, escaped |-> NoEscape,
           heapLen |-> 0]

\* what the caller's code can pass as a callback, as an argument, and what
\* a continuation can do
Callbacks == {Fn(1), Fn(2)}

\* a first argument is empty or a failure value, a last argument is a
\* callback or something that cannot be called
FirstVals == {Nil, Str(1)} \cup {Err(i) : i \in known}

ArgLists ==
    {<<>>, <<Fn(1)>>} \cup {<<x>> : x \in FirstVals}
                     \cup {<<x, Fn(2)>> : x \in FirstVals}

Return == [t |-> "return", v |-> Nil, chk |-> FALSE]

Throws ==
    {[t |-> "throw", v |-> x, chk |-> FALSE] : x \in {Str(1)} \cup {Err(i) : i \in known}}
    \cup {[t |-> "throwNew", v |-> Str(2), chk |-> FALSE]}

Nests == {[t |-> "nest", v |-> Fn(1), chk |-> FALSE]}

NoGuard == [called |-> FALSE, e |-> Nil, meta |-> Nil, out |-> NoThrow,
            heapLen |-> 0, before |-> Nil]

NoResponse == [h |-> 0, first |-> Nil, ran |-> FALSE, out |-> NoThrow, sent |-> <<>>]

\* no Error is being rendered
NoTrace == [e |-> Nil]

\* _ea has not been called
NoEa == [called |-> FALSE, err |-> Nil, msg |-> Nil, out |-> NoThrow, heapLen |-> 0]

\* the state the parts share at the start
Start ==
    /\ heap = <<>>
    /\ wrappers = <<>>
    /\ known = {}
    /\ last = NoCall
    /\ ncalls = 0
    /\ guard = NoGuard
    /\ handlers = <<>>
    /\ http = NoResponse
    /\ ea = NoEa

Init == Start /\ trace = NoTrace

\* user code calls _x(func, cb, chk) at the top level
WrapWith(cbs, lim) ==
    \E cb \in cbs, chk \in BOOLEAN :
        LET r == X(cb, chk, 0, heap, wrappers)
        IN  /\ Len(r.heap) <= lim.errs
            /\ Len(r.wrappers) <= lim.wrappers
            /\ heap' = r.heap
            /\ wrappers' = r.wrappers
            /\ UNCHANGED <<known, last, ncalls, guard, handlers, http, trace, ea>>

\* the asynchronous facility calls a function _x returned, with one of the
\* argument lists args; the continuation does one of behs, the completion
\* callback (when it is called) one of cbBehs
InvokeWith(args, behs, cbBehs, lim) ==
    /\ ncalls < lim.calls
    /\ \E w \in 1..Len(wrappers), a \in args :
        \E beh \in IF TryBody(w, wrappers[w].chk, a, Return, heap, wrappers).ran
                    THEN behs ELSE {Return} :
        \E cbBeh \in IF Returned(w, a, beh, "return", heap, wrappers).call.calls # <<>>
                      THEN cbBehs ELSE {"return"} :
        LET r == Returned(w, a, beh, cbBeh, heap, wrappers)
        IN  /\ Len(r.heap) <= lim.errs
            /\ Len(r.wrappers) <= lim.wrappers
            /\ heap' = r.heap
            /\ wrappers' = r.wrappers
            /\ last' = r.call
            /\ known' = known \cup Learned(r)
            /\ ncalls' = ncalls + 1
            /\ UNCHANGED <<guard, handlers, http, trace, ea>>

Limits == [errs |-> MaxErrs, wrappers |-> MaxWrappers, calls |-> MaxCalls]

Wrap == WrapWith({Nil, Fn(1)}, Limits)

Invoke == InvokeWith(ArgLists, {Return} \cup Throws, {"return", "throw"}, Limits)

Next == Wrap \/ Invoke

Spec == Init /\ [][Next]_vars

\* nested use: wrappers with a bound callback, called without arguments;
\* a continuation may create a wrapper of its own
ChainLimits ==
    [errs |-> MaxChainErrs, wrappers |-> MaxChainWrappers, calls |-> MaxChainCalls]

WrapBound == WrapWith({Fn(1)}, ChainLimits)

InvokeNested == InvokeWith({<<>>}, {Return} \cup Throws \cup Nests, {"return"}, ChainLimits)

NextChain == WrapBound \/ InvokeNested

SpecChain == Init /\ [][NextChain]_vars

\* _e inside a continuation: wrappers with a bound callback, called without
\* arguments or with an Error the caller holds; the continuation returns or
\* calls _e with a value or such an Error, with or without meta
MetaLimits ==
    [errs |-> MaxMetaErrs, wrappers |-> MaxMetaWrappers, calls |-> MaxMetaCalls]

Guards ==
    {[t |-> "guard", v |-> x, chk |-> FALSE, meta |-> m] :
        x \in {Str(1)} \cup {Err(i) : i \in known}, m \in {Nil, Obj(1), Obj(2)}}

WrapChecked == WrapWith({Fn(1)}, MetaLimits)

InvokeGuarded ==
    InvokeWith({<<>>} \cup {<<Err(i)>> : i \in known}, {Return} \cup Guards,
               {"return"}, MetaLimits)

NextMeta == WrapChecked \/ InvokeGuarded

SpecMeta == Init /\ [][NextMeta]_vars

\* ------------------------------------------------------------------ leanStacks
\* A file name is [root, mods, base]: root tells where the path starts (the
\* working directory, elsewhere on disk, a bare name of the runtime, or no
\* name at all), mods whether it goes through node_modules.
UserFile == [root |-> "cwd", mods |-> FALSE, base |-> "test.js"]
LaehFile == [root |-> "cwd", mods |-> TRUE, base |-> "laeh.js"]
CoreFile == [root |-> "bare", mods |-> FALSE, base |-> "fs.js"]

Frame(file, line) == [file |-> file, line |-> line, eval |-> FALSE, native |-> FALSE]

\* the stack V8 captured for an Error, by the place that constructed it
FramesAt(by) ==
    CASE by = "_x" -> <<Frame(LaehFile, 45), Frame(UserFile, 5), Frame(CoreFile, 0)>>
      [] by = "_e" -> <<Frame(LaehFile, 31), Frame(UserFile, 7), Frame(LaehFile, 56), Frame(CoreFile, 0)>>
      [] by = "catch" -> <<Frame(LaehFile, 60), Frame(CoreFile, 0)>>
      [] OTHER -> <<Frame(UserFile, 7), Frame(LaehFile, 56), Frame(CoreFile, 0)>>

\* the pieces of a rendered string
Lit(str) == [t |-> "lit", v |-> [k |-> str, n |-> 0]]
Text(v) == [t |-> "text", v |-> v]
JsonText(v, indent) == [t |-> "json", v |-> v, indent |-> indent]

\* (f.getFileName() || '?').replace(cwd, '.').replace(/node_modules/g, '$'):
\* c is the first character of the result
FileName(f) ==
    IF f.file.root = "none"
    THEN [c |-> "?", mods |-> FALSE, base |-> "?"]
    ELSE [c |-> CASE f.file.root = "cwd" -> "."
                  [] f.file.root = "abs" -> "/"
                  [] OTHER -> "a",
          mods |-> f.file.mods, base |-> f.file.base]

\* hiding && ((c !== '.' && c !== '/') || /.*?laeh.js$/.exec(n))
MutHidden_keepsOnlyProject(hiding, n) ==
    hiding /\ (n.c # "." \/ n.base = "laeh.js")

Hidden(hiding, n) ==
    hiding /\ ((n.c # "." /\ n.c # "/") \/ n.base = "laeh.js")

\* (f.getLineNumber() || '?') + (f.isEval() ? '*' : '') + (f.isNative() ? '+' : '')
MutLineText_noMarker(f) ==
    <<Text(Num(f.line))>>
    \o (IF f.eval THEN <<Lit("*")>> ELSE <<>>)
    \o (IF f.native THEN <<Lit("+")>> ELSE <<>>)

LineText(f) ==
    <<IF f.line # 0 THEN Text(Num(f.line)) ELSE Lit("?")>>
    \o (IF f.eval THEN <<Lit("*")>> ELSE <<>>)
    \o (IF f.native THEN <<Lit("+")>> ELSE <<>>)

\* array.join(sep) of pieces that are themselves sequences
RECURSIVE Join(_, _)
Join(parts, sep) ==
    IF parts = <<>> THEN <<>>
    ELSE IF Len(parts) = 1 THEN parts[1]
    ELSE parts[1] \o sep \o Join(Tail(parts), sep)

\* lib/laeh.js: the loop over the frames; one entry n(line) per frame kept
RECURSIVE StackLoop(_, _)
StackLoop(s, hiding) ==
    IF s = <<>> THEN <<>>
    ELSE LET f == s[1]
             n == FileName(f)
         IN  IF Hidden(hiding, n)
             THEN StackLoop(Tail(s), hiding)
             ELSE <<(<<Text(n), Lit("(")>> \o LineText(f) \o <<Lit(")")>>)>>
                  \o StackLoop(Tail(s), hiding)

\* message and meta, each followed by a space
MsgHead(e, prettyMeta) ==
    (IF e.message # Str(0) THEN <<Text(e.message), Lit(" ")>> ELSE <<>>)
    \o (IF Truthy(e.meta)
        THEN <<IF e.meta.k = "obj" THEN JsonText(e.meta, prettyMeta)
               ELSE Text(StringOf(e.meta)), Lit(" ")>>
        ELSE <<>>)

\* lib/laeh.js: what prepareStackTrace builds before the chain is appended
Segment(e, s, hiding, prettyMeta) ==
    MsgHead(e, prettyMeta) \o Join(StackLoop(s, hiding), <<Lit(" < ")>>)

Unbounded == <<Lit("unbounded")>>

\* lib/laeh.js: e.stack as Error.prepareStackTrace computes it for heap
\* error i, reading e.prev.stack in turn; a chain longer than fuel does not
\* end (prev links form a cycle)
MutStack_ignoresPrev(h, i, hiding, prettyMeta, fuel) ==
    Segment(h[i], FramesAt(h[i].by), hiding, prettyMeta)

RECURSIVE Stack(_, _, _, _, _)
Stack(h, i, hiding, prettyMeta, fuel) ==
    IF fuel = 0 THEN Unbounded
    ELSE Segment(h[i], FramesAt(h[i].by), hiding, prettyMeta)
         \o (IF h[i].prev # 0
             THEN <<Lit(" << ")>> \o Stack(h, h[i].prev, hiding, prettyMeta, fuel - 1)
             ELSE <<>>)

\* the later version: consecutive kept frames of one file share an entry
\* n(line < line; acc is [stack, prev], the entries so far (each without
\* its closing parenthesis) and the file name of the last kept frame
RECURSIVE StackLoopSep(_, _, _)
StackLoopSep(s, hiding, acc) ==
    IF s = <<>> THEN acc.stack
    ELSE LET f == s[1]
             n == FileName(f)
             k == Len(acc.stack)
         IN  IF Hidden(hiding, n)
             THEN StackLoopSep(Tail(s), hiding, acc)
             ELSE IF k > 0 /\ acc.prev = n
             THEN StackLoopSep(Tail(s), hiding,
                    [stack |-> [acc.stack EXCEPT ![k] = @ \o <<Lit(" < ")>> \o LineText(f)],
                     prev |-> n])
             ELSE StackLoopSep(Tail(s), hiding,
                    [stack |-> Append(acc.stack, <<Text(n), Lit("(")>> \o LineText(f)),
                     prev |-> n])

\* for(...) stack[i] += ')'
Closed(stack) == [i \in 1..Len(stack) |-> stack[i] \o <<Lit(")")>>]

\* frameSeparator || ' < ' and fiberSeparator || ' << '
SepOr(sep, default) == IF Truthy(sep) THEN Text(sep) ELSE Lit(default)

\* the later version: msg += fs + stack.join(fs)
SegmentSep(e, s, hiding, prettyMeta, frameSeparator) ==
    LET fs == SepOr(frameSeparator, " < ")
    IN  MsgHead(e, prettyMeta) \o <<fs>>
        \o Join(Closed(StackLoopSep(s, hiding, [stack |-> <<>>, prev |-> Nil])), <<fs>>)

\* the later version of e.stack, with the separators leanStacks was given
RECURSIVE StackSep(_, _, _, _, _, _, _)
StackSep(h, i, hiding, prettyMeta, frameSeparator, fiberSeparator, fuel) ==
    IF fuel = 0 THEN Unbounded
    ELSE SegmentSep(h[i], FramesAt(h[i].by), hiding, prettyMeta, frameSeparator)
         \o (IF h[i].prev # 0
             THEN <<SepOr(fiberSeparator, " << ")>>
                  \o StackSep(h, h[i].prev, hiding, prettyMeta, frameSeparator,
                              fiberSeparator, fuel - 1)
             ELSE <<>>)

\* ------------------------------------------------------------------ prepareStackTrace
\* V8 calls Error.prepareStackTrace(e, s) with the frames s it captured for
\* e.  A captured frame names its file by [dir, mods, base]: dir is the
\* directory the file is under, "bare" for a file of the runtime (a name
\* without directory) and "none" when V8 has no file name for the frame.
ProjFile == [dir |-> "proj", mods |-> FALSE, base |-> "test.js"]
OtherFile == [dir |-> "other", mods |-> FALSE, base |-> "lib.js"]
LibFile == [dir |-> "proj", mods |-> TRUE, base |-> "laeh.js"]
RuntimeFile == [dir |-> "bare", mods |-> FALSE, base |-> "fs.js"]
NoFile == [dir |-> "none", mods |-> FALSE, base |-> "?"]

\* the directories process.cwd() can be
Dirs == {"proj", "other"}

\* the frames of the Errors rendered; line 0 is a frame without line number
RenderFrames ==
    {Frame(ProjFile, 7), Frame(ProjFile, 5), Frame(ProjFile, 0),
     Frame(OtherFile, 3), Frame(LibFile, 31), Frame(RuntimeFile, 0),
     Frame(NoFile, 9)}

FrameSeqs == UNION {[1..k -> RenderFrames] : k \in 0..MaxFrames}

\* the snapshot _x took at wrap time, in user code at line 5
Snapshot ==
    [message |-> Str(0), meta |-> Nil,
     frames |-> <<Frame(LibFile, 45), Frame(ProjFile, 5)>>, prev |-> <<>>]

\* the Errors rendered: with or without message and meta, with or without
\* a prev (a sequence of no or one Error)
RenderErrs ==
    {[message |-> m, meta |-> mt, frames |-> fr, prev |-> p] :
        m \in {Str(0), Str(1)}, mt \in {Nil, Obj(1), Str(2)},
        fr \in FrameSeqs, p \in {<<>>, <<Snapshot>>}}

Hidings == BOOLEAN

Separators == {Nil, Str(3)}

\* Error.prepareStackTrace before leanStacks is called, and the function
\* leanStacks installs, by the arguments it closes over
NoRenderer ==
    [set |-> FALSE, hiding |-> FALSE, prettyMeta |-> Nil,
     frameSeparator |-> Nil, fiberSeparator |-> Nil]

Renderer(hiding, prettyMeta, frameSeparator, fiberSeparator) ==
    [set |-> TRUE, hiding |-> hiding, prettyMeta |-> prettyMeta,
     frameSeparator |-> frameSeparator, fiberSeparator |-> fiberSeparator]

\* the last value the installed function returned: by lib/laeh.js (lib)
\* and by the later version (sep), and the working directory it ran in;
\* before is the same of the call before it, when there was one
NoRead == [done |-> FALSE, cwd |-> "proj", lib |-> <<>>, sep |-> <<>>, before |-> <<>>]

\* new RegExp(process.cwd()...) matched against the file name of each frame:
\* the frames as FileName reads them
AtCwd(s, cwd) ==
    [i \in 1..Len(s) |->
        [s[i] EXCEPT !.file =
            [root |-> IF s[i].file.dir \in Dirs
                      THEN (IF s[i].file.dir = cwd THEN "cwd" ELSE "abs")
                      ELSE s[i].file.dir,
             mods |-> s[i].file.mods, base |-> s[i].file.base]]]

\* lib/laeh.js: the value of Error.prepareStackTrace(e, e.frames) in
\* working directory cwd; e.prev.stack is computed the same way
MutPrepareStackTrace_keepsStack(e, r, cwd) ==
    trace.read.lib \o Segment(e, AtCwd(e.frames, cwd), r.hiding, r.prettyMeta)

RECURSIVE PrepareStackTrace(_, _, _)
PrepareStackTrace(e, r, cwd) ==
    Segment(e, AtCwd(e.frames, cwd), r.hiding, r.prettyMeta)
    \o (IF e.prev # <<>>
        THEN <<Lit(" << ")>> \o PrepareStackTrace(e.prev[1], r, cwd)
        ELSE <<>>)

\* the later version
RECURSIVE PrepareStackTraceSep(_, _, _)
PrepareStackTraceSep(e, r, cwd) ==
    SegmentSep(e, AtCwd(e.frames, cwd), r.hiding, r.prettyMeta, r.frameSeparator)
    \o (IF e.prev # <<>>
        THEN <<SepOr(r.fiberSeparator, " << ")>> \o PrepareStackTraceSep(e.prev[1], r, cwd)
        ELSE <<>>)

\* an Error exists, in a process started in the project directory
InitRender ==
    /\ Start
    /\ \E e \in RenderErrs :
        trace = [e |-> e, renderer |-> NoRenderer, cwd |-> "proj", read |-> NoRead]

\* user code calls leanStacks(hiding, prettyMeta, frameSeparator,
\* fiberSeparator); read starts over for the function it installs
LeanStacks ==
    \E hiding \in Hidings, prettyMeta \in {Nil},
       frameSeparator \in Separators, fiberSeparator \in Separators :
        /\ trace' = [trace EXCEPT
                        !.renderer = Renderer(hiding, prettyMeta, frameSeparator,
                                              fiberSeparator),
                        !.read = NoRead]
        /\ UNCHANGED <<heap, wrappers, known, last, ncalls, guard, handlers, http, ea>>

\* user code calls process.chdir(dir)
Chdir ==
    \E dir \in Dirs :
        /\ dir # trace.cwd
        /\ trace' = [trace EXCEPT !.cwd = dir]
        /\ UNCHANGED <<heap, wrappers, known, last, ncalls, guard, handlers, http, ea>>

\* V8 calls the installed Error.prepareStackTrace for the Error
ReadStack ==
    /\ trace.renderer.set
    /\ trace' = [trace EXCEPT
                    !.read = [done |-> TRUE, cwd |-> trace.cwd,
                              lib |-> PrepareStackTrace(trace.e, trace.renderer, trace.cwd),
                              sep |-> PrepareStackTraceSep(trace.e, trace.renderer, trace.cwd),
                              before |-> IF trace.read.done
                                         THEN <<[cwd |-> trace.read.cwd,
                                                 lib |-> trace.read.lib,
                                                 sep |-> trace.read.sep]>>
                                         ELSE <<>>]]
    /\ UNCHANGED <<heap, wrappers, known, last, ncalls, guard, handlers, http, ea>>

NextRender == LeanStacks \/ Chdir \/ ReadStack

SpecRender == InitRender /\ [][NextRender]_vars

\* ------------------------------------------------------------------ _e alone
\* what user code passes to _e: empty values, failure values that are not
\* Errors, and the Errors it has caught
GuardVals ==
    {Nil, Str(0), Num(0), Str(1), Num(1), Obj(1)} \cup {Err(i) : i \in 1..Len(heap)}

MetaVals == {Nil, Str(0), Num(0), Str(1), Num(1), Obj(1), Obj(2)}

\* user code calls _e(e, meta) and catches what it throws; `before` is the
\* meta e had before the call when e is an Error
CallE ==
    \E e \in GuardVals, meta \in MetaVals :
        LET r == E(e, meta, heap)
        IN  /\ Len(r.heap) <= MaxGuardErrs
            /\ heap' = r.heap
            /\ guard' = [called |-> TRUE, e |-> e, meta |-> meta, out |-> r.out,
                         heapLen |-> Len(heap),
                         before |-> IF IsError(e) THEN heap[e.n].meta ELSE Nil]
            /\ UNCHANGED <<wrappers, known, last, ncalls, handlers, http, trace, ea>>

NextGuard == CallE

SpecGuard == Init /\ [][NextGuard]_vars

\* ------------------------------------------------------------------ _xj, _exj
\* res.json(payload, headers, status); an argument left out is undefined
Json(payload, headers, status) ==
    [payload |-> payload, headers |-> headers, status |-> status]

DefaultStatus == Num(500)

\* status || 500
StatusOr500(status) == IF Truthy(status) THEN status ELSE DefaultStatus

\* the function _xj(func, headers, status) returns, called with (req, res):
\* func does beh; what is sent on res
Xj(hd, beh) ==
    LET out == IF beh.t = "throw" THEN Throw(beh.v) ELSE NoThrow
    IN  [ran |-> TRUE, out |-> out,
         sent |-> IF out.thrown
                  THEN <<Json(out.v, hd.headers, StatusOr500(hd.status))>>
                  ELSE <<>>]

\* the function _exj(func, res, headers, status) returns, called with first
\* argument first
Exj(hd, first, beh) ==
    IF Truthy(first)
    THEN [ran |-> FALSE, out |-> NoThrow,
          sent |-> <<Json(first, hd.headers, Nil)>>]
    ELSE LET out == IF beh.t = "throw" THEN Throw(beh.v) ELSE NoThrow
         IN  [ran |-> TRUE, out |-> out,
              sent |-> IF out.thrown
                       THEN <<Json(out.v, hd.headers, StatusOr500(hd.status))>>
                       ELSE <<>>]

HeaderVals == {Nil, Obj(1)}

StatusVals == {Nil, Num(0), Num(404)}

HttpBehaviours ==
    {Return} \cup {[t |-> "throw", v |-> x, chk |-> FALSE] : x \in {Str(1), Obj(2)}}

\* user code calls _xj(func, headers, status)
MakeXj ==
    \E hs \in HeaderVals, st \in StatusVals :
        /\ Len(handlers) < MaxHandlers
        /\ handlers' = Append(handlers, [fn |-> "_xj", headers |-> hs, status |-> st])
        /\ UNCHANGED <<heap, wrappers, known, last, ncalls, guard, http, trace, ea>>

\* user code calls _exj(func, res, headers, status)
MakeExj ==
    \E hs \in HeaderVals, st \in StatusVals :
        /\ Len(handlers) < MaxHandlers
        /\ handlers' = Append(handlers, [fn |-> "_exj", headers |-> hs, status |-> st])
        /\ UNCHANGED <<heap, wrappers, known, last, ncalls, guard, http, trace, ea>>

\* Express calls the function _xj returned
CallXj ==
    \E h \in 1..Len(handlers), beh \in HttpBehaviours :
        /\ handlers[h].fn = "_xj"
        /\ http' = [h |-> h, first |-> Nil] @@ Xj(handlers[h], beh)
        /\ UNCHANGED <<heap, wrappers, known, last, ncalls, guard, handlers, trace, ea>>

\* an asynchronous call calls the function _exj returned
CallExj ==
    \E h \in 1..Len(handlers), first \in {Nil, Str(1), Obj(2)}, beh \in HttpBehaviours :
        /\ handlers[h].fn = "_exj"
        /\ http' = [h |-> h, first |-> first] @@ Exj(handlers[h], first, beh)
        /\ UNCHANGED <<heap, wrappers, known, last, ncalls, guard, handlers, trace, ea>>

NextHttp == MakeXj \/ MakeExj \/ CallXj \/ CallExj

SpecHttp == Init /\ [][NextHttp]_vars

\* ------------------------------------------------------------------ _ea
\* 'No matching object found', and the errmsg of any other failure
NoMatchingObject == Str(7)
OtherErrmsg == Str(8)

\* the failures the mongodb driver passes that are plain objects: the reply
\* of findAndModify when no object matches, and another reply
NotFoundReply == Obj(7)
OtherReply == Obj(8)

\* err.errmsg: the errmsg of a reply object; an Error the driver built from
\* a reply has the errmsg as its message too; every other value has none
Errmsg(err, h) ==
    CASE err = NotFoundReply -> NoMatchingObject
      [] err = OtherReply -> OtherErrmsg
      [] IsError(err) -> IF h[err.n].by = "mongodb" THEN h[err.n].message ELSE Nil
      [] OTHER -> Nil

\* _ea(err, msg) on heap h: the outcome and the heap it leaves
MutEa_raisesErr(err, msg, h) ==
    E(err, Nil, h)

Ea(err, msg, h) ==
    LET first == IF Truthy(err) /\ Errmsg(err, h) = NoMatchingObject
                 THEN E(msg, Nil, h)
                 ELSE [out |-> NoThrow, heap |-> h]
    IN  IF first.out.thrown THEN first ELSE E(err, Nil, first.heap)

\* what the callback of a mongodb call gets as err, and what user code
\* passes as msg
EaErrs ==
    {Nil, Str(0), Str(1), NotFoundReply, OtherReply} \cup {Err(i) : i \in 1..Len(heap)}

EaMsgs == {Nil, Str(0), Str(1), Str(2)} \cup {Err(i) : i \in 1..Len(heap)}

\* the driver constructs an Error from a reply of the server
Reply ==
    \E errmsg \in {NoMatchingObject, OtherErrmsg} :
        /\ Len(heap) < MaxReplyErrs
        /\ heap' = Append(heap, NewError(errmsg, "mongodb"))
        /\ UNCHANGED <<wrappers, known, last, ncalls, guard, handlers, http, trace, ea>>

\* user code calls _ea(err, msg) and catches what it throws
CallEa ==
    \E err \in EaErrs, msg \in EaMsgs :
        LET r == Ea(err, msg, heap)
        IN  /\ Len(r.heap) <= MaxReplyErrs
            /\ heap' = r.heap
            /\ ea' = [called |-> TRUE, err |-> err, msg |-> msg, out |-> r.out,
                      heapLen |-> Len(heap)]
            /\ UNCHANGED <<wrappers, known, last, ncalls, guard, handlers, http, trace>>

NextEa == Reply \/ CallEa

SpecEa == Init /\ [][NextEa]_vars

\* ------------------------------------------------------------------ claims
\* the call recorded in `last` is a call of a wrapper
Called == last.w # 0

LastWrapper == wrappers[last.w]

\* the wrapper of the last call was built with a completion callback
Bound == Truthy(LastWrapper.cb0)

LastArg(a) == IF Len(a) > 0 THEN a[Len(a)] ELSE Nil

\* error i is the normalized form of the value v raised or passed in the
\* last call: v itself when v is an Error, otherwise an Error constructed
\* during the call whose message is String(v)
Normalized(i, v) ==
    IF IsError(v)
    THEN i = v.n
    ELSE /\ i > last.heapLen
         /\ heap[i].message = StringOf(v)

\* C1: with a bound callback cb, a call in which func raises calls cb exactly
\* once, with the raised failure, whose prev is the snapshot _x constructed:
\* an Error that existed before the call began
C1_BoundCallbackGetsWrapTimeSnapshot ==
    (Called /\ Bound /\ last.ran /\ last.out.thrown) =>
        /\ Len(last.calls) = 1
        /\ last.calls[1].cb = LastWrapper.cb0
        /\ last.calls[1].arg = Err(last.e)
        /\ Normalized(last.e, last.out.v)
        /\ heap[last.e].prev = LastWrapper.prev
        /\ heap[LastWrapper.prev].by = "_x"
        /\ LastWrapper.prev <= last.heapLen

\* a second call of a bound wrapper whose func raised a value that is not
\* an Error
C1_Witness ==
    /\ Called /\ Bound /\ last.ran /\ last.out.thrown
    /\ ~IsError(last.out.v)
    /\ ncalls >= 2
    /\ Len(last.calls) = 1

\* the first argument of the last call is non-empty and the wrapper checks it
Checked == Called /\ LastWrapper.chk /\ Truthy(FirstArg(last.a))

\* C2 as stated: with chk true and a non-empty first argument, func never
\* runs and the completion callback receives exactly one failure, the
\* normalized first argument
C2_CheckedFirstArgAlwaysDelivered ==
    Checked =>
        /\ ~last.ran
        /\ Len(last.calls) = 1
        /\ last.calls[1].arg = Err(last.e)
        /\ Normalized(last.e, FirstArg(last.a))

\* C2 amended: with chk true and a non-empty first argument, func never runs
\* and the failure is the normalized first argument; it is delivered, exactly
\* once, when the callback the wrapper holds is a function, and otherwise
\* nothing is delivered and the call raises
C2_CheckedFirstArgDeliveredToFunction ==
    Checked =>
        /\ ~last.ran
        /\ last.out.thrown
        /\ Normalized(last.e, FirstArg(last.a))
        /\ IsCallable(last.cb) => last.calls = <<[cb |-> last.cb, arg |-> Err(last.e)]>>
        /\ ~IsCallable(last.cb) =>
                /\ last.calls = <<>>
                /\ last.escaped \in {MissingCallback, NotAFunction}

\* a checked call whose first argument is a string and whose callback is a
\* function: the failure was constructed by _e and delivered
C2_Witness ==
    /\ Checked
    /\ ~IsError(FirstArg(last.a))
    /\ IsCallable(last.cb)
    /\ Len(last.calls) = 1
    /\ heap[last.e].by = "_e"

\* C3 as stated: nothing but the 'missing callback' error escapes a call of
\* the returned function
C3_OnlyMissingCallbackEscapes ==
    Called => last.escaped \in {NoEscape, MissingCallback}

\* C3 amended: a failure raised by the check or by func never escapes the
\* call: it is caught, and handed to the callback the wrapper holds when that
\* is a function.  What escapes is the 'missing callback' error, the
\* TypeError of calling a callback that is not a function, or what the
\* completion callback itself raised.
C3_RaisedFailureIsCaught ==
    Called =>
        /\ last.escaped.kind # "uncaught"
        /\ ~last.out.thrown => last.escaped = NoEscape /\ last.calls = <<>>
        /\ last.out.thrown =>
              /\ IsCallable(last.cb) =>
                    /\ last.calls = <<[cb |-> last.cb, arg |-> Err(last.e)]>>
                    /\ last.escaped.kind \in {"none", "callback"}
              /\ (Truthy(last.cb) /\ ~IsCallable(last.cb)) => last.escaped = NotAFunction
              /\ ~Truthy(last.cb) => last.escaped = MissingCallback

\* func raised, the failure was delivered and nothing escaped
C3_Witness ==
    /\ Called /\ last.ran /\ last.out.thrown
    /\ Len(last.calls) = 1
    /\ last.escaped = NoEscape

\* C4: without a bound callback, the callback a call uses is the last
\* argument of that call, and none when the call has no arguments
C4_CallbackIsLastArgOfSameCall ==
    (Called /\ ~Bound) =>
        /\ last.cb = LastArg(last.a)
        /\ \A i \in 1..Len(last.calls) : last.calls[i].cb = LastArg(last.a)

\* C5: without a bound callback, a call with no arguments in which func
\* raises makes the wrapper raise 'missing callback' and call nothing
C5_NoArgsRaisesMissingCallback ==
    (Called /\ ~Bound /\ last.a = <<>> /\ last.out.thrown) =>
        /\ last.escaped = MissingCallback
        /\ last.calls = <<>>

\* C6: a call of the returned function calls the completion callback at most
\* once, with a failure func or the check raised, and never when func ran
\* to completion
C6_CallbackAtMostOnce ==
    Called =>
        /\ Len(last.calls) <= 1
        /\ last.completed => last.calls = <<>>
        /\ \A i \in 1..Len(last.calls) :
              /\ last.out.thrown
              /\ ~last.completed
              /\ last.calls[i].arg = Err(last.e)
              /\ Normalized(last.e, last.out.v)

\* both outcomes on one wrapper: the call before ran func to completion
\* (nothing was delivered), this one delivered a failure
C6_Witness ==
    /\ Called /\ last.ran /\ ~last.completed
    /\ Len(last.calls) = 1
    /\ ncalls >= 2

\* C7: _e(v) with non-empty v raises an Error: v itself when v is an Error,
\* otherwise a new Error whose message is String(v); with empty v it raises
\* nothing and constructs nothing
C7_GuardRaisesIffNonEmpty ==
    guard.called =>
        IF Truthy(guard.e)
        THEN /\ guard.out.thrown
             /\ IsError(guard.out.v)
             /\ IsError(guard.e) => guard.out.v = guard.e /\ Len(heap) = guard.heapLen
             /\ ~IsError(guard.e) =>
                    /\ guard.out.v.n = guard.heapLen + 1
                    /\ Len(heap) = guard.heapLen + 1
                    /\ heap[guard.out.v.n].message = StringOf(guard.e)
        ELSE /\ ~guard.out.thrown
             /\ Len(heap) = guard.heapLen

\* _e was given an Error it had itself constructed from a value, and threw
\* that same Error
C7_Witness ==
    /\ guard.called
    /\ IsError(guard.e)
    /\ guard.out = Throw(guard.e)
    /\ heap[guard.e.n].message = StringOf(Num(1))

\* C8 as stated: for every metadata value m, _e(v, m) with non-empty v raises
\* an Error whose meta is m
C8_MetaIsAlwaysAttached ==
    (guard.called /\ Truthy(guard.e) /\ guard.meta # Nil) =>
        heap[guard.out.v.n].meta = guard.meta

\* C8 amended: for every non-empty (truthy) m, _e(v, m) with non-empty v
\* raises an Error whose meta is m; an empty m (0, '', absent) is not
\* attached and leaves the meta the Error had
C8_TruthyMetaIsAttached ==
    (guard.called /\ Truthy(guard.e)) =>
        /\ Truthy(guard.meta) => heap[guard.out.v.n].meta = guard.meta
        /\ ~Truthy(guard.meta) => heap[guard.out.v.n].meta = guard.before

\* _e replaced the meta of an Error that carried another one by a scalar
C8_Witness ==
    /\ guard.called
    /\ IsError(guard.e)
    /\ guard.before = Obj(1)
    /\ guard.meta = Num(1)
    /\ heap[guard.e.n].meta = Num(1)

\* C9: every error response of _xj and _exj carries status 500 when no
\* status was configured
C9_DefaultStatusIs500 ==
    \A i \in 1..Len(http.sent) :
        handlers[http.h].status = Nil => http.sent[i].status = DefaultStatus

\* the last call was a call of a wrapper created while another wrapper's
\* continuation ran, its continuation raised and the failure was delivered
NestedDelivery ==
    /\ Called
    /\ LastWrapper.parent # 0
    /\ last.ran /\ last.out.thrown
    /\ last.calls # <<>>

\* following prev from error i reaches an Error without prev within fuel links
RECURSIVE Ends(_, _, _)
Ends(h, i, fuel) == i = 0 \/ (fuel > 0 /\ Ends(h, h[i].prev, fuel - 1))

\* the prev chain of error i ends
Acyclic(i) == Ends(heap, i, Len(heap))

ChainLength(i) == Cardinality(ChainOf(heap, i, Len(heap)))

CountOf(seq, tok) == Cardinality({j \in DOMAIN seq : seq[j] = tok})

Rendered == trace.read.done

\* the frames of e the renderer keeps, one entry each, in working
\* directory cwd
KeptEntries(e) == StackLoop(AtCwd(e.frames, trace.read.cwd), trace.renderer.hiding)

DefaultSeparators ==
    trace.renderer.frameSeparator = Nil /\ trace.renderer.fiberSeparator = Nil

TestJs == [c |-> ".", mods |-> FALSE, base |-> "test.js"]

\* 'unexpected thing <file>(7) << <file>(5)'
UnexpectedThing ==
    <<Text(Str(1)), Lit(" "), Text(TestJs), Lit("("), Text(Num(7)), Lit(")"),
      Lit(" << "), Text(TestJs), Lit("("), Text(Num(5)), Lit(")")>>

\* the Error of the README example as the renderer sees it: a message, no
\* meta, one frame kept, at line 7 of the test file, and a prev with one
\* frame kept, at line 5
ExampleError ==
    /\ trace.e.message = Str(1)
    /\ trace.e.meta = Nil
    /\ KeptEntries(trace.e) = <<(<<Text(TestJs), Lit("("), Text(Num(7)), Lit(")")>>)>>
    /\ trace.e.prev # <<>>
    /\ KeptEntries(trace.e.prev[1]) = <<(<<Text(TestJs), Lit("("), Text(Num(5)), Lit(")")>>)>>

\* C11: a rendered trace starts with the message (if any) and the
\* serialized meta (if any), and the first frame group follows them
\* directly; with the default separators the Error of the README example
\* renders as 'unexpected thing <file>(7) << <file>(5)'
C11_SegmentLayout ==
    (Rendered /\ DefaultSeparators) =>
        LET head == MsgHead(trace.e, trace.renderer.prettyMeta)
            kept == KeptEntries(trace.e)
        IN  \A out \in {trace.read.lib, trace.read.sep} :
              /\ SubSeq(out, 1, Len(head)) = head
              /\ kept # <<>> => out[Len(head) + 1] = kept[1][1]
              /\ ExampleError => out = UnexpectedThing

\* e and its prev with only the frames in keep (a set of frames)
Filtered(e, keep) ==
    LET only(fr) == SelectSeq(fr, LAMBDA f : f \in keep)
    IN  [e EXCEPT !.frames = only(e.frames),
                  !.prev = IF e.prev = <<>> THEN <<>>
                           ELSE <<[e.prev[1] EXCEPT !.frames = only(e.prev[1].frames)]>>]

AllFrames == RenderFrames \cup {Snapshot.frames[i] : i \in DOMAIN Snapshot.frames}

\* the renderer with hiding switched off
Showing == [trace.renderer EXCEPT !.hiding = FALSE]

\* the number of frames a rendered trace shows: each shows its line number
\* or '?'
LineTexts == {Lit("?")} \cup {Text(Num(f.line)) : f \in AllFrames}

ShownFrames(out) == Cardinality({j \in DOMAIN out : out[j] \in LineTexts})

FrameCount(e) ==
    Len(e.frames) + (IF e.prev = <<>> THEN 0 ELSE Len(e.prev[1].frames))

\* the frame is in a file under the working directory
ProjectRelative(f) == f.file.dir = trace.read.cwd

\* the frame is in a file with a path, under the working directory or not
HasPath(f) == f.file.dir \in Dirs

InLibrary(f) == f.file.base = "laeh.js"

\* the trace is what the renderer without hiding shows of the frames in keep
ShowsExactly(keep) ==
    /\ trace.read.lib = PrepareStackTrace(Filtered(trace.e, keep), Showing, trace.read.cwd)
    /\ trace.read.sep = PrepareStackTraceSep(Filtered(trace.e, keep), Showing, trace.read.cwd)

\* C12 as stated: with hiding true the trace shows exactly the frames that
\* are in a project-relative file other than the library's own; with
\* hiding false it shows every frame
C12_HidingKeepsOnlyProjectFrames ==
    Rendered =>
        IF trace.renderer.hiding
        THEN ShowsExactly({f \in AllFrames : ProjectRelative(f) /\ ~InLibrary(f)})
        ELSE /\ ShownFrames(trace.read.lib) = FrameCount(trace.e)
             /\ ShownFrames(trace.read.sep) = FrameCount(trace.e)

\* C12 amended: with hiding true the trace shows exactly the frames that
\* are in a file with a path (under the working directory or at an absolute
\* path outside it) other than the library's own, and omits the frames of
\* the runtime and the frames without file name; with hiding false it shows
\* every frame
C12_HidingKeepsFramesWithPath ==
    Rendered =>
        IF trace.renderer.hiding
        THEN ShowsExactly({f \in AllFrames : HasPath(f) /\ ~InLibrary(f)})
        ELSE /\ ShownFrames(trace.read.lib) = FrameCount(trace.e)
             /\ ShownFrames(trace.read.sep) = FrameCount(trace.e)

\* a trace rendered with hiding of an Error with a frame at an absolute
\* path outside the working directory and a frame of the runtime: one
\* frame is shown
C12_Witness ==
    /\ Rendered
    /\ trace.renderer.hiding
    /\ trace.e.prev = <<>>
    /\ \E i, j \in DOMAIN trace.e.frames :
          /\ HasPath(trace.e.frames[i]) /\ ~ProjectRelative(trace.e.frames[i])
          /\ trace.e.frames[j].file = RuntimeFile
    /\ ShownFrames(trace.read.lib) = 1
    /\ ShownFrames(trace.read.sep) = 1

\* the installed renderer has been called twice or more for the Error
RenderedTwice == Rendered /\ trace.read.before # <<>>

SameOutput ==
    /\ trace.read.lib = trace.read.before[1].lib
    /\ trace.read.sep = trace.read.before[1].sep

C14_PrevIsNeverReassigned ==
    [][\A i \in 1..Len(heap) : heap[i].prev # 0 => heap'[i].prev = heap[i].prev]_vars

\* C15: following prev from any Error ends; no Error is reached twice
C15_ChainIsAcyclic ==
    \A i \in 1..Len(heap) : Acyclic(i)

\* the nesting depth of wrapper w: 1 when it was created at the top level,
\* one more than its parent's when it was created while the continuation of
\* its parent was running
RECURSIVE Depth(_, _)
Depth(ws, w) == IF w = 0 THEN 0 ELSE 1 + Depth(ws, ws[w].parent)

\* the number of prev links on the chain of error i
Links(i) == ChainLength(i) - 1

\* the last call is the first call of a wrapper of depth n, made after each
\* enclosing wrapper was called once and created the next one; its
\* continuation raised and the failure was delivered
InnermostRaise ==
    /\ Called
    /\ last.ran /\ last.out.thrown
    /\ last.calls # <<>>
    /\ ncalls = Depth(wrappers, last.w)

\* C16 as stated: when the innermost continuation of n nested wrappers
\* raises, the delivered failure has n prev links
C16_LinksEqualNestingDepth ==
    InnermostRaise => Links(last.e) = Depth(wrappers, last.w)

\* C16 amended: when the innermost continuation of n nested wrappers
\* raises, the delivered failure has one prev link, to the snapshot of the
\* innermost wrapper, which has no prev; the snapshot of the enclosing
\* wrapper is not on the chain
C16_OneLinkAtEveryDepth ==
    InnermostRaise =>
        /\ Links(last.e) = 1
        /\ heap[last.e].prev = LastWrapper.prev
        /\ heap[LastWrapper.prev].prev = 0
        /\ LastWrapper.parent # 0 =>
              wrappers[LastWrapper.parent].prev \notin ChainOf(heap, last.e, Len(heap))

\* the continuation of a wrapper of depth 2 raised on its first call
C16_Witness ==
    /\ InnermostRaise
    /\ Depth(wrappers, last.w) = 2
    /\ Links(last.e) = 1

\* ------------------------------------------------------------------ claims on meta
\* C17 as stated: no step changes the meta of an Error that has one
C17_MetaIsNeverOverwritten ==
    [][\A i \in 1..Len(heap) :
          Truthy(heap[i].meta) => heap'[i].meta = heap[i].meta]_vars

\* C17 amended: the meta of an Error that has one changes only in a call
\* whose continuation ran and raised that Error through _e with another
\* non-empty meta; raising it without meta, passing it as first argument
\* to a wrapper that checks it and delivering it leave the meta as it was
C17_MetaChangesOnlyByGuardWithMeta ==
    [][\A i \in 1..Len(heap) :
          (Truthy(heap[i].meta) /\ heap'[i].meta # heap[i].meta) =>
              /\ last'.ran
              /\ last'.out = Throw(Err(i))
              /\ Truthy(heap'[i].meta)]_vars

\* an Error with meta was passed as first argument to a wrapper that checks
\* it and was delivered
C17_Witness ==
    /\ Checked
    /\ IsError(FirstArg(last.a))
    /\ Truthy(heap[FirstArg(last.a).n].meta)
    /\ ~last.ran
    /\ last.calls # <<>>
    /\ last.calls[1].arg = FirstArg(last.a)

\* ------------------------------------------------------------------ claims on delivery
\* the value the last call raised or was passed: what the continuation
\* threw, or the first argument the check rejected
Raised == IF last.ran THEN last.out.v ELSE FirstArg(last.a)

\* C18: every value a wrapper passes to a completion callback is an Error,
\* the raised value itself or an Error constructed from it with the value
\* as message, and its prev is the snapshot the delivering wrapper
\* constructed at wrap time
C18_DeliveredValueIsLinkedError ==
    Called =>
        \A j \in DOMAIN last.calls :
            LET arg == last.calls[j].arg
            IN  /\ IsError(arg)
                /\ arg.n \in 1..Len(heap)
                /\ Normalized(arg.n, Raised)
                /\ heap[arg.n].prev = LastWrapper.prev
                /\ heap[LastWrapper.prev].by = "_x"
                /\ LastWrapper.prev <= last.heapLen

\* a wrapper without bound callback delivered a raised string to the
\* callback it took from its arguments
C18_Witness ==
    /\ Called
    /\ ~Bound
    /\ last.ran /\ ~IsError(last.out.v)
    /\ last.calls # <<>>
    /\ IsError(last.calls[1].arg)
    /\ heap[last.calls[1].arg.n].message = last.out.v

\* ------------------------------------------------------------------ claims on frames
\* the frames of the rendered Error the renderer retains, as it reads them
Retained ==
    LET keep == IF trace.renderer.hiding
                THEN {f \in AllFrames : HasPath(f) /\ ~InLibrary(f)}
                ELSE AllFrames
    IN  AtCwd(SelectSeq(trace.e.frames, LAMBDA f : f \in keep), trace.read.cwd)

\* the pieces run appear in out, one after the other
HasRun(out, run) ==
    \E j \in 0..(Len(out) - Len(run)) : SubSeq(out, j + 1, j + Len(run)) = run

\* C19: of two consecutive retained frames, the second continues the group
\* of the first when they have the same normalized location, its line
\* number following the configured frameSeparator, and starts a group of
\* its own when they have not
C19_SameLocationFramesShareGroup ==
    Rendered =>
        LET kept == Retained
            fs == SepOr(trace.renderer.frameSeparator, " < ")
        IN  \A i \in 1..(Len(kept) - 1) :
              IF FileName(kept[i]) = FileName(kept[i + 1])
              THEN HasRun(trace.read.sep,
                          LineText(kept[i]) \o <<fs>> \o LineText(kept[i + 1]))
              ELSE HasRun(trace.read.sep,
                          LineText(kept[i]) \o <<Lit(")"), fs,
                                                 Text(FileName(kept[i + 1])), Lit("(")>>
                          \o LineText(kept[i + 1]))

\* the normalized location of a frame without file name
Unknown == [c |-> "?", mods |-> FALSE, base |-> "?"]

\* the number of frames in s without line number, without file name
NoLine(s) == Cardinality({i \in DOMAIN s : s[i].line = 0})

NoName(s) == Cardinality({i \in DOMAIN s : FileName(s[i]) = Unknown})

\* all frames of the rendered Error, as the renderer reads them
Captured == AtCwd(trace.e.frames, trace.read.cwd)

\* C20 as stated: whatever hiding is, every frame without line number
\* shows '?' for its line and every frame without file name shows '?' for
\* its location
C20_UnknownFramesAlwaysShown ==
    Rendered =>
        /\ CountOf(trace.read.lib, Lit("?")) = NoLine(Captured)
        /\ CountOf(trace.read.sep, Lit("?")) = NoLine(Captured)
        /\ CountOf(trace.read.lib, Text(Unknown)) = NoName(Captured)
        /\ NoName(Captured) > 0 => CountOf(trace.read.sep, Text(Unknown)) > 0

\* C20 amended: every retained frame without line number shows '?' for its
\* line; with hiding false every frame is retained and a frame without
\* file name shows '?' for its location; with hiding true a frame without
\* file name, and a frame without line number in a file of the runtime,
\* is omitted
C20_UnknownFramesShownWhenRetained ==
    Rendered =>
        /\ CountOf(trace.read.lib, Lit("?")) = NoLine(Retained)
        /\ CountOf(trace.read.sep, Lit("?")) = NoLine(Retained)
        /\ CountOf(trace.read.lib, Text(Unknown)) = NoName(Retained)
        /\ NoName(Retained) > 0 <=> CountOf(trace.read.sep, Text(Unknown)) > 0
        /\ ~trace.renderer.hiding => Retained = Captured
        /\ trace.renderer.hiding => NoName(Retained) = 0

\* rendered with hiding: an Error with a frame without file name, which is
\* omitted, and a frame without line number in a project file, shown as '?'
C20_Witness ==
    /\ Rendered
    /\ trace.renderer.hiding
    /\ NoName(Captured) = 1
    /\ NoLine(Retained) = 1
    /\ CountOf(trace.read.lib, Text(Unknown)) = 0
    /\ CountOf(trace.read.lib, Lit("?")) = 1
    /\ CountOf(trace.read.sep, Lit("?")) = 1

\* ------------------------------------------------------------------ claims on _ea
\* the last call of _ea raised the Error that carries v: v itself when v is
\* an Error, otherwise an Error constructed in the call with message
\* String(v)
EaRaised(v) ==
    /\ ea.out.thrown
    /\ IsError(ea.out.v)
    /\ IF IsError(v)
       THEN ea.out.v = v
       ELSE /\ ea.out.v.n > ea.heapLen
            /\ heap[ea.out.v.n].message = StringOf(v)

\* the err of the last call is the not-found failure
NotFound == Truthy(ea.err) /\ Errmsg(ea.err, heap) = NoMatchingObject

\* C21 as stated: for the not-found failure _ea raises an Error carrying
\* msg, whatever msg is, and not err; for any other non-empty err it raises
\* err; for an empty err it raises nothing
C21_NotFoundRaisesMsg ==
    ea.called =>
        IF ~Truthy(ea.err) THEN ~ea.out.thrown
        ELSE IF NotFound THEN EaRaised(ea.msg) /\ ea.out.v # ea.err
        ELSE EaRaised(ea.err)

\* C21 amended: for the not-found failure and a non-empty msg _ea raises an
\* Error carrying msg and not err; for the not-found failure and an empty
\* msg, and for any other non-empty err, it raises err; for an empty err it
\* raises nothing
C21_NotFoundRaisesNonEmptyMsg ==
    ea.called =>
        IF ~Truthy(ea.err) THEN ~ea.out.thrown
        ELSE IF NotFound /\ Truthy(ea.msg)
        THEN EaRaised(ea.msg) /\ (ea.msg # ea.err => ea.out.v # ea.err)
        ELSE EaRaised(ea.err)

\* _ea was called with an Error of the driver that says not found and a
\* non-empty message, and raised a new Error with that message
C21_Witness ==
    /\ ea.called
    /\ NotFound
    /\ IsError(ea.err)
    /\ ea.msg = Str(1)
    /\ EaRaised(ea.msg)
    /\ ea.out.v # ea.err

====
